---- MODULE Spec2Model ----
(***************************************************************************)
(* The S3 bucket lifecycle configuration resource (create / read / update  *)
(* / delete against the remote policy API, with the read stabilization     *)
(* loop) and the S3 bucket tag update helper.                              *)
(*                                                                         *)
(* Strings that are encoded or decoded (the resource id) are sequences of  *)
(* one-character strings.  Every remote call answers nondeterministically  *)
(* with one of the results the API can give: the remote side is eventually *)
(* consistent, so a read is not tied to the last write.  A retry loop ends  *)
(* by its function's result or by its own timeout; cancellation of the     *)
(* caller's context is not modelled.                                       *)
(***************************************************************************)
EXTENDS Integers, Sequences, FiniteSets, TLC

\* ---- bounds of the model ------------------------------------------------
\* attempts of the polling function the stabilization timeout leaves room for
MaxPolls == 3
\* attempts of the write the write-retry timeout leaves room for
MaxPutAttempts == 2

\* ---- error values ---------------------------------------------------------
Nil == "nil"
ErrCodeNoSuchLifecycleConfiguration == "NoSuchLifecycleConfiguration"
ErrCodeNoSuchBucket == "NoSuchBucket"
AccessDenied == "AccessDenied"
\* fmt.Errorf("bucket lifecycle configuration has not stablized; trying again")
NotStabilized == "NotStabilized"
\* *resource.TimeoutError with LastError == nil
TimeoutError == "TimeoutError"
ValidationError == "ValidationError"
FormatError == "FormatError"
\* the error of the status wait that precedes the trailing read
WaitError == "WaitError"

NotFoundCodes == {ErrCodeNoSuchLifecycleConfiguration, ErrCodeNoSuchBucket}
RemoteErrors == NotFoundCodes \cup {AccessDenied}

ErrCodeEquals(err, codes) == err \in codes

TimedOut(err) == err = TimeoutError

\* ---- configuration values -------------------------------------------------
Sep == ","
EmptyId == <<>>
Buckets == {<<"a">>, <<"b", "k">>}
Owners == {<<>>, <<"7">>}

\* a configured rule block: expiration.days (0: unset), expiration.date ("": unset)
UserRules == [id : {"r1"}, days : {0, 30}, date : {"", "2030"}]
uDays == [id |-> "r1", days |-> 30, date |-> ""]
uDate == [id |-> "r1", days |-> 0, date |-> "2030"]
Configs == {<<u>> : u \in UserRules} \cup {<<uDays, uDate>>}

\* ---- Rule Mapper ----------------------------------------------------------
ExpandRule(u) ==
    [ID |-> u.id,
     Expiration |-> IF u.days /= 0 THEN <<"Days", u.days>>
                    ELSE IF u.date /= "" THEN <<"Date", u.date>>
                    ELSE <<>>]

ExpandLifecycleRules(l) ==
    IF \E i \in 1..Len(l) : l[i].days /= 0 /\ l[i].date /= ""
    THEN [err |-> ValidationError, rules |-> <<>>]
    ELSE [err |-> Nil, rules |-> [i \in 1..Len(l) |-> ExpandRule(l[i])]]

FlattenRule(r) ==
    [id |-> r.ID,
     days |-> IF r.Expiration /= <<>> /\ r.Expiration[1] = "Days"
              THEN r.Expiration[2] ELSE 0,
     date |-> IF r.Expiration /= <<>> /\ r.Expiration[1] = "Date"
              THEN r.Expiration[2] ELSE ""]

FlattenLifecycleRules(rs) == [i \in 1..Len(rs) |-> FlattenRule(rs[i])]

\* the rule lists the remote API can hold and return
ApiRuleLists == {ExpandLifecycleRules(c).rules :
                    c \in {k \in Configs : ExpandLifecycleRules(k).err = Nil}}

\* ---- Resource Identity Codec ----------------------------------------------
CreateResourceID(bucket, expectedBucketOwner) ==
    bucket \o <<Sep>> \o expectedBucketOwner

SepPositions(s) == {i \in 1..Len(s) : s[i] = Sep}

ParseResourceID(s) ==
    IF Cardinality(SepPositions(s)) = 1
    THEN LET p == CHOOSE i \in SepPositions(s) : TRUE
         IN  [err |-> Nil,
              bucket |-> SubSeq(s, 1, p - 1),
              owner |-> SubSeq(s, p + 1, Len(s))]
    ELSE [err |-> FormatError, bucket |-> <<>>, owner |-> <<>>]

\* ---- remote API results ---------------------------------------------------
\* GetBucketLifecycleConfiguration: the rules, or an error
GetResults == [err : {Nil}, rules : ApiRuleLists]
                \cup [err : RemoteErrors, rules : {<<>>}]
\* PutBucketLifecycleConfiguration and DeleteBucketLifecycle: ok, or an error
WriteResults == {Nil} \cup RemoteErrors
\* no call was made
NoResult == [err |-> "none", rules |-> <<>>]
\* the remote side holds no lifecycle configuration
Absent == [present |-> FALSE, rules |-> <<>>]
Present(rs) == [present |-> TRUE, rules |-> rs]

\* a *s3.GetBucketLifecycleConfigurationOutput: the nil pointer, or its Rules
NilOutput == [nil |-> TRUE, Rules |-> <<>>]
Output(rs) == [nil |-> FALSE, Rules |-> rs]

\* ---- state ----------------------------------------------------------------
VARIABLES
    id,          \* d.Id(): the tracked identity
    attrs,       \* the attributes written by d.Set: bucket, owner, rule
    isNew,       \* d.IsNewResource()
    op,          \* the operation running: none, create, read, update, delete
    pc,          \* its position: idle, put, wait, poll, last, done
    outcome,     \* none | ok (nil, attributes set or delete done)
                 \* | absent (nil, identity cleared) | error
    retErr,      \* the error an operation that failed reports
    cfg,         \* d.Get: the configured bucket, owner and rule list
    target,      \* bucket and expected owner the remote calls carry
    rules,       \* the expanded rule list of the write
    lastOutput,  \* Read's comparison baseline (NilOutput: no read yet)
    output,      \* Read's latest GetPolicy output
    resultErr,   \* the last retryable error the retry helper holds
    nAttempt,    \* write attempts made inside the write retry
    polls,       \* the GetPolicy results of the polling loop, in order
    loopEnd,     \* how the polling loop ended: none, stable, fatal, timeout
    nGet,        \* GetPolicy calls issued by the operation
    puts,        \* the PutPolicy results of the operation, in order
    dels,        \* the DeletePolicy result of the operation, if it called
    nLast,       \* unconditional GetPolicy calls issued after the loop
    lastGot,     \* the result of the unconditional GetPolicy after the loop
    idBefore,    \* the identity when the operation started
    attrsBefore, \* the attributes when the operation started
    remoteBefore, \* what the remote side held when Update started
    remote,      \* the rule list the remote side holds, or Absent
    tagStore,    \* the TagSet stored on the bucket
    tpc,         \* the tag helper's position: idle, listed, done, objdone
    tagOld,      \* the oldTags argument of the tag update
    tagNew,      \* the newTags argument of the tag update
    tagBefore,   \* the TagSet stored when the tag update was called
    tagCalls,    \* the remote calls the tag update issued, in order
    tagRet,      \* the error the tag helper returned (Nil: none)
    tagGot,      \* the answer GetBucketTagging gave the tag helper
    tagOut,      \* the tags S3BucketListTags returned
    objStore     \* the TagSet stored on the object

dvars == <<id, attrs, isNew>>
ctl == <<op, pc, outcome, retErr>>
loc == <<cfg, target, rules, lastOutput, output, resultErr, nAttempt>>
ghost == <<polls, loopEnd, nGet, puts, dels, nLast, lastGot, idBefore, attrsBefore,
           remoteBefore>>
tvars == <<tagStore, tpc, tagOld, tagNew, tagBefore, tagCalls, tagRet, tagGot, tagOut,
           objStore>>
vars == <<dvars, ctl, loc, ghost, remote, tvars>>

\* ---- Tag Sync: values -----------------------------------------------------
AwsKeys == {"aws:cf"}
TagKeys == AwsKeys \cup {"env", "team"}
TagValues == {"x", "y"}
NoSuchTagSet == "NoSuchTagSet"

\* KeyValueTags: a map from some of the keys to values
TagMaps == UNION {[ks -> TagValues] : ks \in SUBSET TagKeys}
\* New(nil)
NoTags == [k \in {} |-> "x"]

\* the key carries the aws: prefix
AwsPrefixed(k) == k \in AwsKeys

\* KeyValueTags.IgnoreAws: the tags whose key is not aws:-prefixed
IgnoreAws(tags) == [k \in {j \in DOMAIN tags : ~AwsPrefixed(j)} |-> tags[k]]

\* KeyValueTags.Removed: the receiver's tags whose key the argument lacks
Removed(tags, other) == [k \in DOMAIN tags \ DOMAIN other |-> tags[k]]

\* KeyValueTags.Merge: the argument's tags laid over the receiver's
Merge(tags, other) ==
    [k \in DOMAIN tags \cup DOMAIN other |->
        IF k \in DOMAIN other THEN other[k] ELSE tags[k]]

\* KeyValueTags.S3Tags: the map as a TagSet of Key/Value records
S3Tags(tags) == {[Key |-> k, Value |-> tags[k]] : k \in DOMAIN tags}

\* S3KeyValueTags: a TagSet as a map
S3KeyValueTags(ts) ==
    [k \in {t.Key : t \in ts} |-> (CHOOSE t \in ts : t.Key = k).Value]

TagSets == {S3Tags(m) : m \in TagMaps}

\* GetBucketTagging: the stored TagSet, NoSuchTagSet when there is none, or a fault
GetBucketTaggingResults(store) ==
    {[err |-> AccessDenied, TagSet |-> {}], [err |-> Nil, TagSet |-> store]}
        \cup (IF store = {} THEN {[err |-> NoSuchTagSet, TagSet |-> {}]} ELSE {})

\* no answer yet
NoGot == [err |-> "none", TagSet |-> {}]

\* ---- Tag Sync: S3BucketListTags and S3BucketUpdateTags ---------------------
S3BucketListTagsNoSuchIsError(got) ==
    IF got.err /= Nil THEN [tags |-> NoTags, err |-> got.err]
    ELSE [tags |-> S3KeyValueTags(got.TagSet), err |-> Nil]

S3BucketListTags(got) ==
    IF got.err = NoSuchTagSet THEN [tags |-> NoTags, err |-> Nil]
    ELSE IF got.err /= Nil THEN [tags |-> NoTags, err |-> got.err]
    ELSE [tags |-> S3KeyValueTags(got.TagSet), err |-> Nil]

\* the system tags of the listed tags
SysTagsKeepsUser(allTags) == IgnoreAws(allTags)

SysTags(allTags) == Removed(allTags, IgnoreAws(allTags))

\* the write the update chooses: put, delete or none
UpdateChoiceIgnoresSys(oldTags, newTags, sysTags) ==
    IF Cardinality(DOMAIN newTags) > 0 THEN "put"
    ELSE IF Cardinality(DOMAIN oldTags) > 0 /\ Cardinality(DOMAIN sysTags) = 0
    THEN "delete"
    ELSE "none"

UpdateChoice(oldTags, newTags, sysTags) ==
    IF Cardinality(DOMAIN newTags) + Cardinality(DOMAIN sysTags) > 0 THEN "put"
    ELSE IF Cardinality(DOMAIN oldTags) > 0 /\ Cardinality(DOMAIN sysTags) = 0
    THEN "delete"
    ELSE "none"

\* the TagSet of the PutBucketTagging input
PutTagSet(newTags, sysTags) == S3Tags(Merge(newTags, sysTags))

TagsIdle ==
    /\ tpc = "idle"
    /\ tagOld = NoTags /\ tagNew = NoTags
    /\ tagBefore = {} /\ tagCalls = <<>> /\ tagRet = Nil
    /\ tagGot = NoGot /\ tagOut = NoTags

\* a call of S3BucketListTags: the whole function
ListTags ==
    /\ tpc = "idle"
    /\ tpc' = "listed"
    /\ tagBefore' = tagStore
    /\ \E got \in GetBucketTaggingResults(tagStore) :
        /\ tagGot' = got
        /\ tagCalls' = <<[call |-> "GetBucketTagging", TagSet |-> {}]>>
        /\ tagOut' = S3BucketListTags(got).tags
        /\ tagRet' = S3BucketListTags(got).err
    /\ UNCHANGED <<tagStore, tagOld, tagNew, dvars, ctl, loc, ghost, remote, objStore>>

\* a call of S3BucketUpdateTags(oldTags, newTags): the whole function
S3BucketUpdateTags ==
    /\ tpc = "idle"
    /\ tpc' = "done"
    /\ tagBefore' = tagStore
    /\ \E oldTags \in TagMaps, newTags \in TagMaps,
          got \in GetBucketTaggingResults(tagStore), werr \in {Nil, AccessDenied} :
        /\ tagOld' = oldTags /\ tagNew' = newTags
        /\ tagGot' = got /\ tagOut' = S3BucketListTags(got).tags
        /\ LET listed == S3BucketListTags(got)
               sysTags == SysTags(listed.tags)
               choice == UpdateChoice(oldTags, newTags, sysTags)
           IN  IF listed.err /= Nil
               THEN /\ tagCalls' = <<[call |-> "GetBucketTagging", TagSet |-> {}]>>
                    /\ tagRet' = listed.err
                    /\ UNCHANGED tagStore
               ELSE IF choice = "put"
               THEN /\ tagCalls' = <<[call |-> "GetBucketTagging", TagSet |-> {}],
                                     [call |-> "PutBucketTagging",
                                      TagSet |-> PutTagSet(newTags, sysTags)]>>
                    /\ tagRet' = werr
                    /\ tagStore' = IF werr = Nil THEN PutTagSet(newTags, sysTags)
                                   ELSE tagStore
               ELSE IF choice = "delete"
               THEN /\ tagCalls' = <<[call |-> "GetBucketTagging", TagSet |-> {}],
                                     [call |-> "DeleteBucketTagging", TagSet |-> {}]>>
                    /\ tagRet' = werr
                    /\ tagStore' = IF werr = Nil THEN {} ELSE tagStore
               ELSE /\ tagCalls' = <<[call |-> "GetBucketTagging", TagSet |-> {}]>>
                    /\ tagRet' = Nil
                    /\ UNCHANGED tagStore
    /\ UNCHANGED <<dvars, ctl, loc, ghost, remote, objStore>>

\* ---- Tag Sync: S3ObjectUpdateTags ------------------------------------------
\* the write the object update chooses: put, delete or none
ObjectUpdateChoice(oldTags, newTags) ==
    IF Cardinality(DOMAIN newTags) > 0 THEN "put"
    ELSE IF Cardinality(DOMAIN oldTags) > 0 THEN "delete"
    ELSE "none"

\* the TagSet of the PutObjectTagging input
ObjectPutTagSetKeepsAws(newTags) == S3Tags(newTags)

ObjectPutTagSet(newTags) == S3Tags(IgnoreAws(newTags))

\* a call of S3ObjectUpdateTags(oldTags, newTags): the whole function
S3ObjectUpdateTags ==
    /\ tpc = "idle"
    /\ tpc' = "objdone"
    /\ tagBefore' = objStore
    /\ \E oldTags \in TagMaps, newTags \in TagMaps, werr \in {Nil, AccessDenied} :
        /\ tagOld' = oldTags /\ tagNew' = newTags
        /\ LET choice == ObjectUpdateChoice(oldTags, newTags)
           IN  IF choice = "put"
               THEN /\ tagCalls' = <<[call |-> "PutObjectTagging",
                                      TagSet |-> ObjectPutTagSet(newTags)]>>
                    /\ tagRet' = werr
                    /\ objStore' = IF werr = Nil THEN ObjectPutTagSet(newTags)
                                   ELSE objStore
               ELSE IF choice = "delete"
               THEN /\ tagCalls' = <<[call |-> "DeleteObjectTagging", TagSet |-> {}]>>
                    /\ tagRet' = werr
                    /\ objStore' = IF werr = Nil THEN {} ELSE objStore
               ELSE /\ tagCalls' = <<>>
                    /\ tagRet' = Nil
                    /\ UNCHANGED objStore
    /\ UNCHANGED <<tagStore, tagGot, tagOut, dvars, ctl, loc, ghost, remote>>

\* the tag helper has returned
TagsReturn ==
    /\ tpc \in {"listed", "done", "objdone"}
    /\ tpc' = "idle"
    /\ tagOld' = NoTags /\ tagNew' = NoTags
    /\ tagBefore' = {} /\ tagCalls' = <<>> /\ tagRet' = Nil
    /\ tagGot' = NoGot /\ tagOut' = NoTags
    /\ UNCHANGED <<tagStore, dvars, ctl, loc, ghost, remote, objStore>>

NoCfg == [bucket |-> <<>>, owner |-> <<>>, rule |-> <<>>]

\* the request every remote call carries: the owner field is set only when the
\* expected owner is not the empty string
RequestInputAlwaysOwner(bucket, expectedBucketOwner) ==
    [Bucket |-> bucket, ExpectedBucketOwner |-> <<expectedBucketOwner>>]

RequestInput(bucket, expectedBucketOwner) ==
    [Bucket |-> bucket,
     ExpectedBucketOwner |-> IF expectedBucketOwner /= <<>>
                             THEN <<expectedBucketOwner>> ELSE <<>>]

\* the handler's locals bucket and expectedBucketOwner, and the input built
\* from them
Target(bucket, expectedBucketOwner) ==
    [bucket |-> bucket, owner |-> expectedBucketOwner,
     input |-> RequestInput(bucket, expectedBucketOwner)]

NoTarget == Target(<<>>, <<>>)
NoAttrs == [bucket |-> <<>>, owner |-> <<>>, rule |-> <<>>]

InitReconciler ==
    /\ id = EmptyId
    /\ attrs = NoAttrs
    /\ isNew = FALSE
    /\ op = "none" /\ pc = "idle" /\ outcome = "none" /\ retErr = Nil
    /\ cfg = NoCfg /\ target = NoTarget /\ rules = <<>>
    /\ lastOutput = NilOutput /\ output = NilOutput /\ resultErr = Nil /\ nAttempt = 0
    /\ polls = <<>> /\ loopEnd = "none"
    /\ nGet = 0 /\ puts = <<>> /\ dels = <<>> /\ nLast = 0
    /\ idBefore = EmptyId /\ attrsBefore = NoAttrs /\ lastGot = NoResult
    /\ remoteBefore = Absent
    /\ remote = Absent

Init ==
    /\ InitReconciler
    /\ TagsIdle
    /\ tagStore = {} /\ objStore = {}

\* the tag helper alone: the bucket holds any TagSet when it is first called
InitTags ==
    /\ InitReconciler
    /\ TagsIdle
    /\ tagStore \in TagSets /\ objStore = {}

\* the object tag helper alone: the object holds any TagSet when it is called
InitObjectTags ==
    /\ InitReconciler
    /\ TagsIdle
    /\ tagStore = {} /\ objStore \in TagSets

\* an operation returns diag.Errorf / diag.FromErr: nothing else changes
Fail(e) ==
    /\ pc' = "done" /\ outcome' = "error" /\ retErr' = e

\* ---- Read -----------------------------------------------------------------
\* the entry of resourceBucketLifecycleConfigurationRead, up to the loop
ReadBegin(theId) ==
    LET p == ParseResourceID(theId)
    IN  IF p.err /= Nil
        THEN /\ Fail(p.err)
             /\ UNCHANGED <<target, lastOutput, output, resultErr, polls, loopEnd>>
        ELSE /\ pc' = "poll" /\ outcome' = "none" /\ retErr' = Nil
             /\ target' = Target(p.bucket, p.owner)
             /\ lastOutput' = NilOutput /\ output' = NilOutput /\ resultErr' = Nil
             /\ polls' = <<>> /\ loopEnd' = "none"

\* the loop's success test: a baseline exists and the new output equals it
StabilizedNoBaseline(last, out) == last.nil \/ last = out

Stabilized(last, out) == ~last.nil /\ last = out

\* the polling function retries a not-found only on a new resource
RetryNotFoundNever(new, err) == FALSE

RetryAnyError(new, err) == err /= Nil

RetryNotFound(new, err) == new /\ ErrCodeEquals(err, NotFoundCodes)

\* what resource.RetryContext returns when its timeout ends the loop.  The
\* helper keeps the error of the last attempt (resultErr) and returns it in
\* preference to the wait's TimeoutError; the bare TimeoutError comes back
\* only when no attempt returned before the timeout.  An attempt in flight at
\* the timeout counts as made when it returns within the grace period.
RetryContextTimeout(last) == IF last = Nil THEN TimeoutError ELSE last

\* the end of Read, after the loop and the last read: err and output decide
ReadReturnKeepId(err, out) ==
    /\ pc' = "done"
    /\ IF ErrCodeEquals(err, NotFoundCodes)
       THEN /\ outcome' = "absent" /\ retErr' = Nil
            /\ UNCHANGED <<id, attrs>>
       ELSE IF err /= Nil
       THEN /\ outcome' = "error" /\ retErr' = err
            /\ UNCHANGED <<id, attrs>>
       ELSE /\ outcome' = "ok" /\ retErr' = Nil
            /\ attrs' = [bucket |-> target.bucket, owner |-> target.owner,
                         rule |-> FlattenLifecycleRules(out.Rules)]
            /\ UNCHANGED id

ReadReturn(err, out) ==
    /\ pc' = "done"
    /\ IF ~isNew /\ ErrCodeEquals(err, NotFoundCodes)
       THEN /\ id' = EmptyId
            /\ outcome' = "absent" /\ retErr' = Nil
            /\ UNCHANGED attrs
       ELSE IF err /= Nil
       THEN /\ outcome' = "error" /\ retErr' = err
            /\ UNCHANGED <<id, attrs>>
       ELSE /\ outcome' = "ok" /\ retErr' = Nil
            /\ attrs' = [bucket |-> target.bucket, owner |-> target.owner,
                         rule |-> FlattenLifecycleRules(out.Rules)]
            /\ UNCHANGED id

\* the framework calls Read on a tracked resource
Read ==
    /\ pc = "idle" /\ id /= EmptyId
    /\ op' = "read" /\ isNew' = FALSE
    /\ idBefore' = id /\ attrsBefore' = attrs
    /\ UNCHANGED remoteBefore
    /\ ReadBegin(id)
    /\ UNCHANGED <<id, attrs, cfg, rules, nAttempt, nGet, puts, dels, nLast, lastGot, remote>>
    /\ UNCHANGED tvars

\* one attempt of the polling function
\* a polling function that forgets its baseline on a retried not-found
PollResetsBaseline ==
    /\ pc = "poll" /\ Len(polls) < MaxPolls
    /\ \E res \in GetResults :
        /\ polls' = Append(polls, res)
        /\ nGet' = nGet + 1
        /\ output' = IF res.err = Nil THEN Output(res.rules) ELSE NilOutput
        /\ IF RetryNotFound(isNew, res.err)
           THEN /\ resultErr' = res.err
                /\ lastOutput' = NilOutput
                /\ UNCHANGED <<loopEnd, pc, outcome, retErr, id, attrs>>
           ELSE IF res.err /= Nil
           THEN /\ resultErr' = res.err
                /\ loopEnd' = "fatal"
                /\ ReadReturn(res.err, NilOutput)
                /\ UNCHANGED lastOutput
           ELSE IF ~Stabilized(lastOutput, Output(res.rules))
           THEN /\ lastOutput' = Output(res.rules)
                /\ resultErr' = NotStabilized
                /\ UNCHANGED <<loopEnd, pc, outcome, retErr, id, attrs>>
           ELSE /\ resultErr' = Nil
                /\ loopEnd' = "stable"
                /\ ReadReturn(Nil, Output(res.rules))
                /\ UNCHANGED lastOutput
    /\ UNCHANGED <<isNew, op, cfg, target, rules, nAttempt, puts, dels, nLast,
                   lastGot, idBefore, attrsBefore, remoteBefore, remote>>
    /\ UNCHANGED tvars

Poll ==
    /\ pc = "poll" /\ Len(polls) < MaxPolls
    /\ \E res \in GetResults :
        /\ polls' = Append(polls, res)
        /\ nGet' = nGet + 1
        /\ output' = IF res.err = Nil THEN Output(res.rules) ELSE NilOutput
        /\ IF RetryNotFound(isNew, res.err)
           THEN /\ resultErr' = res.err
                /\ UNCHANGED <<lastOutput, loopEnd, pc, outcome, retErr, id, attrs>>
           ELSE IF res.err /= Nil
           THEN /\ resultErr' = res.err
                /\ loopEnd' = "fatal"
                /\ ReadReturn(res.err, NilOutput)
                /\ UNCHANGED lastOutput
           ELSE IF ~Stabilized(lastOutput, Output(res.rules))
           THEN /\ lastOutput' = Output(res.rules)
                /\ resultErr' = NotStabilized
                /\ UNCHANGED <<loopEnd, pc, outcome, retErr, id, attrs>>
           ELSE /\ resultErr' = Nil
                /\ loopEnd' = "stable"
                /\ ReadReturn(Nil, Output(res.rules))
                /\ UNCHANGED lastOutput
    /\ UNCHANGED <<isNew, op, cfg, target, rules, nAttempt, puts, dels, nLast,
                   lastGot, idBefore, attrsBefore, remoteBefore, remote>>
    /\ UNCHANGED tvars

\* the stabilization timeout ends the loop
\* a stabilization timeout that does not end the loop
PollTimeoutIgnored ==
    /\ pc = "poll" /\ loopEnd = "none"
    /\ loopEnd' = "timeout"
    /\ UNCHANGED <<pc, outcome, retErr, id, attrs>>
    /\ UNCHANGED <<isNew, op, cfg, target, rules, lastOutput, output, resultErr,
                   nAttempt, polls, nGet, puts, dels, nLast, lastGot, idBefore,
                   attrsBefore, remoteBefore, remote>>
    /\ UNCHANGED tvars

PollTimeout ==
    /\ pc = "poll"
    /\ loopEnd' = "timeout"
    /\ LET err == RetryContextTimeout(resultErr)
       IN  IF TimedOut(err)
           THEN /\ pc' = "last"
                /\ UNCHANGED <<outcome, retErr, id, attrs>>
           ELSE ReadReturn(err, output)
    /\ UNCHANGED <<isNew, op, cfg, target, rules, lastOutput, output, resultErr,
                   nAttempt, polls, nGet, puts, dels, nLast, lastGot, idBefore,
                   attrsBefore, remoteBefore, remote>>
    /\ UNCHANGED tvars

\* the unconditional read after a timed-out loop
LastRead ==
    /\ pc = "last"
    /\ \E res \in GetResults :
        /\ nGet' = nGet + 1 /\ nLast' = nLast + 1
        /\ lastGot' = res
        /\ output' = IF res.err = Nil THEN Output(res.rules) ELSE NilOutput
        /\ ReadReturn(res.err, IF res.err = Nil THEN Output(res.rules) ELSE NilOutput)
    /\ UNCHANGED <<isNew, op, cfg, target, rules, lastOutput, resultErr, nAttempt,
                   polls, loopEnd, puts, dels, idBefore, attrsBefore, remoteBefore, remote>>
    /\ UNCHANGED tvars

\* ---- Create ---------------------------------------------------------------
\* verify.RetryOnAWSCode retries the call while it reports this code
RetryOnAWSCode(code, err) == err = code

\* the results of waitForLifecycleConfigurationRulesStatus
WaitResults == {Nil, WaitError}

\* the framework calls Create on an untracked resource, marked new:
\* the handler up to its write
CreateWritesBeforeCheck ==
    /\ pc = "idle" /\ id = EmptyId
    /\ op' = "create" /\ isNew' = TRUE /\ idBefore' = id /\ attrsBefore' = attrs
    /\ UNCHANGED remoteBefore
    /\ \E b \in Buckets, o \in Owners, r \in Configs, res \in WriteResults :
        /\ cfg' = [bucket |-> b, owner |-> o, rule |-> r]
        /\ target' = Target(b, o)
        /\ LET e == ExpandLifecycleRules(r)
           IN  /\ rules' = e.rules
               /\ IF e.err /= Nil
                  THEN /\ puts' = <<res>>
                       /\ Fail(e.err)
                  ELSE /\ pc' = "put" /\ outcome' = "none" /\ retErr' = Nil
                       /\ puts' = <<>>
    /\ UNCHANGED <<id, attrs, lastOutput, output, resultErr, nAttempt, polls,
                   loopEnd, nGet, dels, nLast, lastGot, remote>>
    /\ UNCHANGED tvars

Create ==
    /\ pc = "idle" /\ id = EmptyId
    /\ op' = "create" /\ isNew' = TRUE /\ idBefore' = id /\ attrsBefore' = attrs
    /\ UNCHANGED remoteBefore
    /\ \E b \in Buckets, o \in Owners, r \in Configs :
        /\ cfg' = [bucket |-> b, owner |-> o, rule |-> r]
        /\ LET e == ExpandLifecycleRules(r)
           IN  IF e.err /= Nil
               THEN /\ Fail(e.err)
                    /\ rules' = <<>> /\ target' = NoTarget
               ELSE /\ pc' = "put" /\ outcome' = "none" /\ retErr' = Nil
                    /\ rules' = e.rules
                    /\ target' = Target(b, o)
    /\ UNCHANGED <<id, attrs, lastOutput, output, resultErr, nAttempt, polls,
                   loopEnd, nGet, puts, dels, nLast, lastGot, remote>>
    /\ UNCHANGED tvars

\* one attempt of Create's write inside the retry, and what follows it
CreatePutIgnoresError ==
    /\ op = "create" /\ pc = "put" /\ nAttempt < MaxPutAttempts
    /\ \E res \in WriteResults :
        /\ puts' = Append(puts, res)
        /\ nAttempt' = nAttempt + 1
        /\ remote' = IF res = Nil THEN Present(rules) ELSE remote
        /\ IF RetryOnAWSCode(ErrCodeNoSuchBucket, res)
           THEN /\ resultErr' = res
                /\ UNCHANGED <<id, pc, outcome, retErr>>
           ELSE /\ resultErr' = res
                /\ id' = CreateResourceID(cfg.bucket, cfg.owner)
                /\ pc' = "wait"
                /\ UNCHANGED <<outcome, retErr>>
    /\ UNCHANGED <<attrs, isNew, op, cfg, target, rules, lastOutput, output,
                   polls, loopEnd, nGet, dels, nLast, lastGot, idBefore, attrsBefore,
                   remoteBefore>>
    /\ UNCHANGED tvars

\* a Create that leaves the identity to be set after the wait
CreatePutNoSetId ==
    /\ op = "create" /\ pc = "put" /\ nAttempt < MaxPutAttempts
    /\ \E res \in WriteResults :
        /\ puts' = Append(puts, res)
        /\ nAttempt' = nAttempt + 1
        /\ remote' = IF res = Nil THEN Present(rules) ELSE remote
        /\ IF RetryOnAWSCode(ErrCodeNoSuchBucket, res)
           THEN /\ resultErr' = res
                /\ UNCHANGED <<id, pc, outcome, retErr>>
           ELSE IF res /= Nil
           THEN /\ resultErr' = res
                /\ Fail(res)
                /\ UNCHANGED id
           ELSE /\ resultErr' = Nil
                /\ pc' = "wait"
                /\ UNCHANGED <<id, outcome, retErr>>
    /\ UNCHANGED <<attrs, isNew, op, cfg, target, rules, lastOutput, output,
                   polls, loopEnd, nGet, dels, nLast, lastGot, idBefore, attrsBefore,
                   remoteBefore>>
    /\ UNCHANGED tvars

CreatePut ==
    /\ op = "create" /\ pc = "put" /\ nAttempt < MaxPutAttempts
    /\ \E res \in WriteResults :
        /\ puts' = Append(puts, res)
        /\ nAttempt' = nAttempt + 1
        /\ remote' = IF res = Nil THEN Present(rules) ELSE remote
        /\ IF RetryOnAWSCode(ErrCodeNoSuchBucket, res)
           THEN /\ resultErr' = res
                /\ UNCHANGED <<id, pc, outcome, retErr>>
           ELSE IF res /= Nil
           THEN /\ resultErr' = res
                /\ Fail(res)
                /\ UNCHANGED id
           ELSE /\ resultErr' = Nil
                /\ id' = CreateResourceID(cfg.bucket, cfg.owner)
                /\ pc' = "wait"
                /\ UNCHANGED <<outcome, retErr>>
    /\ UNCHANGED <<attrs, isNew, op, cfg, target, rules, lastOutput, output,
                   polls, loopEnd, nGet, dels, nLast, lastGot, idBefore, attrsBefore,
                   remoteBefore>>
    /\ UNCHANGED tvars

\* the write retry times out: the operation fails with the helper's error
PutTimeout ==
    /\ pc = "put"
    /\ Fail(RetryContextTimeout(resultErr))
    /\ UNCHANGED <<dvars, op, loc, ghost, remote, objStore>>
    /\ UNCHANGED tvars

\* the status wait after the write, then the trailing Read begins
Wait ==
    /\ pc = "wait"
    /\ nGet' = nGet + 1
    /\ \E w \in WaitResults :
        IF w /= Nil
        THEN /\ Fail(w)
             /\ UNCHANGED <<target, lastOutput, output, resultErr, polls, loopEnd>>
        ELSE ReadBegin(id)
    /\ UNCHANGED <<dvars, op, cfg, rules, nAttempt, puts, dels, nLast, lastGot,
                   idBefore, attrsBefore,
                   remoteBefore, remote>>
    /\ UNCHANGED tvars

\* ---- Update ---------------------------------------------------------------
\* the framework calls Update on a tracked resource: the handler up to its write
Update ==
    /\ pc = "idle" /\ id /= EmptyId
    /\ op' = "update" /\ isNew' = FALSE /\ idBefore' = id /\ attrsBefore' = attrs
    /\ remoteBefore' = remote
    /\ \E r \in Configs :
        /\ cfg' = [NoCfg EXCEPT !.rule = r]
        /\ LET p == ParseResourceID(id)
               e == ExpandLifecycleRules(r)
           IN  IF p.err /= Nil
               THEN /\ Fail(p.err)
                    /\ rules' = <<>> /\ target' = NoTarget
               ELSE IF e.err /= Nil
               THEN /\ Fail(e.err)
                    /\ rules' = <<>>
                    /\ target' = Target(p.bucket, p.owner)
               ELSE /\ pc' = "put" /\ outcome' = "none" /\ retErr' = Nil
                    /\ rules' = e.rules
                    /\ target' = Target(p.bucket, p.owner)
    /\ UNCHANGED <<id, attrs, lastOutput, output, resultErr, nAttempt, polls,
                   loopEnd, nGet, puts, dels, nLast, lastGot, remote>>
    /\ UNCHANGED tvars

\* one attempt of Update's write inside the retry, and what follows it
UpdatePutSetsId ==
    /\ op = "update" /\ pc = "put" /\ nAttempt < MaxPutAttempts
    /\ \E res \in WriteResults :
        /\ puts' = Append(puts, res)
        /\ nAttempt' = nAttempt + 1
        /\ remote' = IF res = Nil THEN Present(rules) ELSE remote
        /\ resultErr' = res
        /\ IF RetryOnAWSCode(ErrCodeNoSuchLifecycleConfiguration, res)
           THEN UNCHANGED <<id, pc, outcome, retErr>>
           ELSE IF res /= Nil
           THEN Fail(res) /\ UNCHANGED id
           ELSE /\ pc' = "wait"
                /\ id' = CreateResourceID(cfg.bucket, cfg.owner)
                /\ UNCHANGED <<outcome, retErr>>
    /\ UNCHANGED <<attrs, isNew, op, cfg, target, rules, lastOutput, output,
                   polls, loopEnd, nGet, dels, nLast, lastGot, idBefore, attrsBefore,
                   remoteBefore>>
    /\ UNCHANGED tvars

\* an Update that reads the remote rules and writes them back with its own
UpdatePutMerges ==
    /\ op = "update" /\ pc = "put" /\ nAttempt < MaxPutAttempts
    /\ \E res \in WriteResults :
        /\ puts' = Append(puts, res)
        /\ nAttempt' = nAttempt + 1
        /\ remote' = IF res = Nil THEN Present(remote.rules \o rules) ELSE remote
        /\ resultErr' = res
        /\ IF RetryOnAWSCode(ErrCodeNoSuchLifecycleConfiguration, res)
           THEN UNCHANGED <<pc, outcome, retErr>>
           ELSE IF res /= Nil
           THEN Fail(res)
           ELSE /\ pc' = "wait"
                /\ UNCHANGED <<outcome, retErr>>
    /\ UNCHANGED <<dvars, op, cfg, target, rules, lastOutput, output,
                   polls, loopEnd, nGet, dels, nLast, lastGot, idBefore, attrsBefore,
                   remoteBefore>>
    /\ UNCHANGED tvars

UpdatePut ==
    /\ op = "update" /\ pc = "put" /\ nAttempt < MaxPutAttempts
    /\ \E res \in WriteResults :
        /\ puts' = Append(puts, res)
        /\ nAttempt' = nAttempt + 1
        /\ remote' = IF res = Nil THEN Present(rules) ELSE remote
        /\ resultErr' = res
        /\ IF RetryOnAWSCode(ErrCodeNoSuchLifecycleConfiguration, res)
           THEN UNCHANGED <<pc, outcome, retErr>>
           ELSE IF res /= Nil
           THEN Fail(res)
           ELSE /\ pc' = "wait"
                /\ UNCHANGED <<outcome, retErr>>
    /\ UNCHANGED <<dvars, op, cfg, target, rules, lastOutput, output,
                   polls, loopEnd, nGet, dels, nLast, lastGot, idBefore, attrsBefore,
                   remoteBefore>>
    /\ UNCHANGED tvars

\* ---- Delete ---------------------------------------------------------------
\* what Delete returns for the result of its DeletePolicy call
DeleteOutcomeStrict(err) == IF err /= Nil THEN "error" ELSE "ok"

DeleteOutcome(err) ==
    IF ErrCodeEquals(err, NotFoundCodes) THEN "ok"
    ELSE IF err /= Nil THEN "error"
    ELSE "ok"

\* the framework calls Delete on a tracked resource: the whole handler
Delete ==
    /\ pc = "idle" /\ id /= EmptyId
    /\ op' = "delete" /\ isNew' = FALSE /\ idBefore' = id /\ attrsBefore' = attrs
    /\ UNCHANGED remoteBefore
    /\ pc' = "done"
    /\ LET p == ParseResourceID(id)
       IN  IF p.err /= Nil
           THEN /\ outcome' = "error" /\ retErr' = p.err
                /\ UNCHANGED <<target, dels, remote>>
           ELSE /\ target' = Target(p.bucket, p.owner)
                /\ \E res \in WriteResults :
                    /\ dels' = Append(dels, res)
                    /\ remote' = IF res = Nil THEN Absent ELSE remote
                    /\ outcome' = DeleteOutcome(res)
                    /\ retErr' = IF DeleteOutcome(res) = "error" THEN res ELSE Nil
    /\ UNCHANGED <<id, attrs, cfg, rules, lastOutput, output, resultErr, nAttempt,
                   polls, loopEnd, nGet, puts, nLast, lastGot>>
    /\ UNCHANGED tvars

\* the operation has returned: the framework is ready for the next one
Return ==
    /\ pc = "done"
    /\ op' = "none" /\ pc' = "idle" /\ outcome' = "none" /\ retErr' = Nil
    /\ isNew' = FALSE
    /\ cfg' = NoCfg /\ target' = NoTarget /\ rules' = <<>>
    /\ lastOutput' = NilOutput /\ output' = NilOutput /\ resultErr' = Nil /\ nAttempt' = 0
    /\ polls' = <<>> /\ loopEnd' = "none"
    /\ nGet' = 0 /\ puts' = <<>> /\ dels' = <<>> /\ nLast' = 0
    /\ idBefore' = EmptyId /\ attrsBefore' = NoAttrs /\ lastGot' = NoResult
    /\ remoteBefore' = Absent
    /\ UNCHANGED <<id, attrs, remote>>
    /\ UNCHANGED tvars

\* ---- properties -----------------------------------------------------------
Last(q) == q[Len(q)]

\* the most recent successful read of the polling loop before read n (0: none)
PrevOk(n) ==
    LET ok == {i \in 1..(n - 1) : polls[i].err = Nil}
    IN  IF ok = {} THEN 0 ELSE CHOOSE i \in ok : \A j \in ok : j <= i

\* the result of the last GetPolicy call Read issued
FinalGet ==
    IF nLast > 0 THEN lastGot
    ELSE IF polls /= <<>> THEN Last(polls)
    ELSE NoResult

\* C1: the polling loop of Read ends as stable only on a successful read that
\* equals the successful read before it: never on the first read, and a
\* successful read that has no equal predecessor leaves the loop retrying
\* (it can then end only by a later read or by the timeout).
C1_StableOnlyOnTwoEqualReads ==
    /\ loopEnd = "stable" =>
          /\ Len(polls) >= 2
          /\ Last(polls).err = Nil
          /\ PrevOk(Len(polls)) /= 0
          /\ polls[PrevOk(Len(polls))].rules = Last(polls).rules
    /\ \A n \in 1..Len(polls) :
          (/\ polls[n].err = Nil
           /\ \/ PrevOk(n) = 0
              \/ polls[PrevOk(n)].rules /= polls[n].rules)
          => (n < Len(polls) \/ loopEnd \in {"none", "timeout"})

\* reads R1 /= R2 = R3: the loop ended as stable on the third read
C1_Witness ==
    /\ loopEnd = "stable" /\ Len(polls) = 3
    /\ \A i \in 1..3 : polls[i].err = Nil
    /\ polls[1].rules /= polls[2].rules
    /\ polls[2].rules = polls[3].rules

\* C2: when Read runs on a resource that is not new and its GetPolicy reports
\* NoSuchLifecycleConfiguration or NoSuchBucket, Read ends with the identity
\* cleared, no error, and the attributes as they were before the operation.
C2_NotFoundClearsIdentity ==
    (/\ ~isNew /\ op \in {"read", "update"}
     /\ ErrCodeEquals(FinalGet.err, NotFoundCodes))
    => /\ pc = "done"
       /\ id = EmptyId
       /\ outcome = "absent" /\ retErr = Nil
       /\ attrs = attrsBefore

\* a standalone Read of a resource whose attributes were set: not found
C2_Witness ==
    /\ op = "read" /\ pc = "done"
    /\ Len(polls) = 1 /\ polls[1].err = ErrCodeNoSuchLifecycleConfiguration
    /\ idBefore /= EmptyId /\ id = EmptyId
    /\ outcome = "absent"
    /\ attrs /= NoAttrs

\* C3: on a new resource every not-found read of the polling loop is retried,
\* the identity set by the write is never cleared, and Read returns a
\* not-found error only when the stabilization timeout ended the loop.
C3_NewResourceNotFoundRetried ==
    (isNew /\ op = "create" /\ puts /= <<>> /\ Last(puts) = Nil)
    => /\ id = CreateResourceID(cfg.bucket, cfg.owner)
       /\ outcome /= "absent"
       /\ \A n \in 1..Len(polls) :
             ErrCodeEquals(polls[n].err, NotFoundCodes)
             => (n < Len(polls) \/ loopEnd \in {"none", "timeout"})
       /\ (outcome = "error" /\ ErrCodeEquals(retErr, NotFoundCodes))
             => loopEnd = "timeout"

\* a not-found read was retried, another read followed, and Read failed
\* with not-found after the timeout
C3_Witness ==
    /\ isNew /\ op = "create" /\ pc = "done"
    /\ Len(polls) >= 2
    /\ ErrCodeEquals(polls[1].err, NotFoundCodes)
    /\ outcome = "error" /\ ErrCodeEquals(retErr, NotFoundCodes)
    /\ loopEnd = "timeout"
    /\ id /= EmptyId

\* C4: when the timeout ends the polling loop, Read issues exactly one more
\* GetPolicy; if that call succeeds Read stores its rules and returns no
\* error, and Read fails only with that call's error.
C4_TimeoutFallsBackToLastRead ==
    (pc = "done" /\ loopEnd = "timeout")
    => /\ nLast = 1
       /\ lastGot.err = Nil =>
             /\ outcome = "ok"
             /\ attrs.rule = FlattenLifecycleRules(lastGot.rules)
       /\ outcome = "error" => retErr = lastGot.err

\* C5: Delete issues exactly one DeletePolicy call and returns success when
\* the call succeeds or reports NoSuchLifecycleConfiguration or NoSuchBucket;
\* any other error of the call makes Delete fail with it.  The identity and
\* the attributes are left alone, so Delete can be called again.
C5_DeleteIdempotent ==
    (op = "delete" /\ pc = "done")
    => /\ Len(dels) = 1
       /\ nGet = 0 /\ puts = <<>>
       /\ (dels[1] = Nil \/ ErrCodeEquals(dels[1], NotFoundCodes))
             => (outcome = "ok" /\ retErr = Nil)
       /\ ~(dels[1] = Nil \/ ErrCodeEquals(dels[1], NotFoundCodes))
             => (outcome = "error" /\ retErr = dels[1])
       /\ dels[1] = Nil => remote = Absent
       /\ id = idBefore /\ attrs = attrsBefore

\* a Delete of a policy an earlier Delete removed: the remote side reports
\* not-found and Delete succeeds
C5_Witness ==
    /\ op = "delete" /\ pc = "done"
    /\ remote = Absent /\ id /= EmptyId
    /\ dels = <<ErrCodeNoSuchLifecycleConfiguration>>
    /\ outcome = "ok"

\* the stored tags whose key is aws:-prefixed: the system tags
StoredSysTags(ts) == {t \in ts : AwsPrefixed(t.Key)}
KeysOf(ts) == {t.Key : t \in ts}

\* C6 as stated: after a successful bucket tag update every tag stored before
\* the call that the user configuration does not know (its key is in neither
\* oldTags nor newTags) is still stored with the same value.
C6_UnknownTagsPreserved ==
    (tpc = "done" /\ tagRet = Nil)
    => \A t \in tagBefore :
          (t.Key \notin DOMAIN tagOld /\ t.Key \notin DOMAIN tagNew)
          => t \in tagStore

\* C6, amended: after a successful bucket tag update every stored tag whose
\* key is aws:-prefixed (the system tags the code computes) is still stored
\* with the same value; every user tag (a key of oldTags that is not
\* aws:-prefixed) absent from newTags is gone; and with newTags empty and
\* oldTags not, exactly the aws:-prefixed tags remain.
C6_SystemTagsPreserved ==
    (tpc = "done" /\ tagRet = Nil)
    => /\ StoredSysTags(tagBefore) \subseteq tagStore
       /\ \A k \in DOMAIN tagOld \ DOMAIN tagNew :
             ~AwsPrefixed(k) => k \notin KeysOf(tagStore)
       /\ (tagNew = NoTags /\ tagOld /= NoTags)
             => tagStore = StoredSysTags(tagBefore)

\* stored {aws:cf = x, env = y}, oldTags {env = y}, newTags {}: {aws:cf = x} stays
C6_Witness ==
    /\ tpc = "done" /\ tagRet = Nil
    /\ tagBefore = {[Key |-> "aws:cf", Value |-> "x"], [Key |-> "env", Value |-> "y"]}
    /\ tagOld = [k \in {"env"} |-> "y"]
    /\ tagNew = NoTags
    /\ tagStore = {[Key |-> "aws:cf", Value |-> "x"]}

\* the union of newTags and the system tags stored before the call
TagUnion ==
    StoredSysTags(tagBefore)
        \cup {t \in S3Tags(tagNew) : t.Key \notin KeysOf(StoredSysTags(tagBefore))}

\* C7: the bucket tag update lists the stored tags first and then issues at
\* most one write: a put of the union of newTags and the system tags (the
\* stored tags with an aws:-prefixed key, which win over newTags) when the
\* union is not empty, else a delete of all tags when oldTags is not empty,
\* else nothing; a failed list returns the error with nothing written.
C7_OneOfThreeOutcomes ==
    tpc = "done"
    => /\ Len(tagCalls) \in {1, 2}
       /\ tagCalls[1].call = "GetBucketTagging"
       /\ Len(tagCalls) = 2 =>
             \/ /\ tagCalls[2].call = "PutBucketTagging"
                /\ TagUnion /= {}
                /\ tagCalls[2].TagSet = TagUnion
                /\ tagRet = Nil => tagStore = TagUnion
             \/ /\ tagCalls[2].call = "DeleteBucketTagging"
                /\ TagUnion = {} /\ tagOld /= NoTags
                /\ tagRet = Nil => tagStore = {}
       /\ (Len(tagCalls) = 1 /\ tagRet = Nil) =>
             /\ TagUnion = {} /\ tagOld = NoTags
             /\ tagStore = tagBefore
       /\ (Len(tagCalls) = 1 /\ tagRet /= Nil) => tagStore = tagBefore

\* the delete outcome: no new tags, no system tags, old tags known
C7_Witness ==
    /\ tpc = "done" /\ tagRet = Nil
    /\ Len(tagCalls) = 2 /\ tagCalls[2].call = "DeleteBucketTagging"
    /\ tagBefore /= {} /\ tagStore = {}

\* C8: when the expansion of the configured rule list fails, Create and
\* Update have returned an error, no PutPolicy and no GetPolicy was issued,
\* and the identity is what it was before the operation.
C8_ValidationBeforeNetwork ==
    (/\ op \in {"create", "update"}
     /\ ExpandLifecycleRules(cfg.rule).err /= Nil)
    => /\ pc = "done" /\ outcome = "error" /\ retErr = ValidationError
       /\ puts = <<>> /\ nGet = 0
       /\ id = idBefore
       /\ op = "create" => id = EmptyId

\* an Update of a tracked resource whose configured rule sets days and date
C8_Witness ==
    /\ op = "update" /\ pc = "done"
    /\ retErr = ValidationError
    /\ id /= EmptyId /\ remote /= Absent

\* C9 as stated: whatever Update returns, the identity is the one before it.
C9_IdentityUnchangedByUpdate ==
    (op = "update" /\ pc = "done") => id = idBefore

\* C9, amended: Update leaves the identity as it was, except that its trailing
\* Read clears it (and returns no error) when GetPolicy reports
\* NoSuchLifecycleConfiguration or NoSuchBucket.
C9_IdentityKeptUnlessNotFound ==
    op = "update"
    => \/ id = idBefore
       \/ /\ id = EmptyId
          /\ pc = "done" /\ outcome = "absent"
          /\ puts /= <<>> /\ Last(puts) = Nil
          /\ ErrCodeEquals(FinalGet.err, NotFoundCodes)

\* an Update that wrote, stabilized and read back keeps the identity
C9_Witness ==
    /\ op = "update" /\ pc = "done" /\ outcome = "ok"
    /\ puts /= <<>> /\ loopEnd = "stable"
    /\ id = idBefore /\ id /= EmptyId

\* C10: Create reaches the wait and the read only after a PutPolicy that
\* succeeded; every earlier attempt reported NoSuchBucket and was retried;
\* when the write ends otherwise (another error, or the retry timeout) Create
\* fails with the identity unset and no GetPolicy issued.
C10_CreateStabilizesOnlyAfterWrite ==
    op = "create"
    => /\ \A i \in 1..(Len(puts) - 1) : puts[i] = ErrCodeNoSuchBucket
       /\ pc = "put" => \A i \in 1..Len(puts) : puts[i] = ErrCodeNoSuchBucket
       /\ (pc \in {"wait", "poll", "last"} \/ nGet > 0 \/ id /= EmptyId)
             => (puts /= <<>> /\ Last(puts) = Nil)
       /\ (pc = "done" /\ (puts = <<>> \/ Last(puts) /= Nil))
             => (outcome = "error" /\ id = EmptyId /\ nGet = 0)

\* the write reported NoSuchBucket, was retried and then succeeded
C10_Witness ==
    /\ op = "create" /\ pc = "wait"
    /\ puts = <<ErrCodeNoSuchBucket, Nil>>
    /\ id /= EmptyId /\ nGet = 0

\* the identity Read starts with: Create's trailing Read runs on the new id
ReadStartId ==
    IF op = "create" THEN CreateResourceID(cfg.bucket, cfg.owner) ELSE idBefore

\* a GetPolicy result that is an error outside the not-found class
Fault(res) == res.err \notin ({Nil, "none"} \cup NotFoundCodes)

\* C11: a GetPolicy error outside the not-found class is fatal in Read: it is
\* the last call Read issues (the loop ends at once, no read follows), Read
\* returns that error, and the identity and the attributes stay as they were.
C11_RemoteFaultFatal ==
    /\ \A n \in 1..Len(polls) :
          Fault(polls[n])
          => /\ n = Len(polls)
             /\ loopEnd = "fatal" /\ nLast = 0
             /\ pc = "done" /\ outcome = "error" /\ retErr = polls[n].err
             /\ id = ReadStartId /\ attrs = attrsBefore
    /\ Fault(lastGot)
          => /\ pc = "done" /\ outcome = "error" /\ retErr = lastGot.err
             /\ id = ReadStartId /\ attrs = attrsBefore

\* a fault on the second read of a standalone Read, after a first good read
C11_Witness ==
    /\ op = "read" /\ pc = "done"
    /\ Len(polls) = 2 /\ polls[1].err = Nil /\ polls[2].err = AccessDenied
    /\ outcome = "error" /\ retErr = AccessDenied
    /\ nGet = 2 /\ id /= EmptyId /\ attrs /= NoAttrs

\* the identity the running operation found stored (Create: the one it stored)
StoredId == IF op = "create" THEN id ELSE idBefore

\* C12: once Create stored CreateResourceID(b, o), every request a later Read,
\* Update or Delete builds (and the trailing Read of Create) names bucket b,
\* carries expected owner o when o is not empty and no owner field when it is,
\* and a successful Read sets the bucket and owner attributes to b and o.
C12_IdentityRoundTrips ==
    \A b \in Buckets, o \in Owners :
        (StoredId = CreateResourceID(b, o) /\ pc /= "idle")
        => /\ target /= NoTarget
              => /\ target.bucket = b /\ target.owner = o
                 /\ target.input.Bucket = b
                 /\ (o = <<>> => target.input.ExpectedBucketOwner = <<>>)
                 /\ (o /= <<>> => target.input.ExpectedBucketOwner = <<o>>)
           /\ (pc = "done" /\ outcome = "ok" /\ polls /= <<>>)
              => attrs.bucket = b /\ attrs.owner = o

\* a standalone Read of an identity with a two-character bucket and an owner
C12_Witness ==
    /\ op = "read" /\ pc = "done" /\ outcome = "ok"
    /\ idBefore = CreateResourceID(<<"b", "k">>, <<"7">>)
    /\ target.input = [Bucket |-> <<"b", "k">>, ExpectedBucketOwner |-> << <<"7">> >>]
    /\ attrs.bucket = <<"b", "k">> /\ attrs.owner = <<"7">>

\* the same with an empty owner: the request has no owner field
C12_WitnessNoOwner ==
    /\ op = "delete" /\ pc = "done" /\ dels /= <<>>
    /\ idBefore = CreateResourceID(<<"a">>, <<>>)
    /\ target.input = [Bucket |-> <<"a">>, ExpectedBucketOwner |-> <<>>]

\* C13: S3BucketListTags turns a NoSuchTagSet answer into the empty tag set
\* with no error, returns any other error with the empty tag set, and on
\* success returns exactly the stored tag set as a map.
C13_ListTagsOutcomes ==
    tpc = "listed" =>
        /\ tagCalls = <<[call |-> "GetBucketTagging", TagSet |-> {}]>>
        /\ tagStore = tagBefore
        /\ tagGot.err = NoSuchTagSet => tagOut = NoTags /\ tagRet = Nil
        /\ tagGot.err \notin {Nil, NoSuchTagSet}
              => tagOut = NoTags /\ tagRet = tagGot.err
        /\ tagGot.err = Nil
              => /\ tagRet = Nil
                 /\ DOMAIN tagOut = {t.Key : t \in tagStore}
                 /\ \A t \in tagStore : tagOut[t.Key] = t.Value

\* the bucket has no tag set and the remote side says so
C13_Witness ==
    /\ tpc = "listed" /\ tagGot.err = NoSuchTagSet
    /\ tagOut = NoTags /\ tagRet = Nil

\* a list of a bucket holding two tags
C13_WitnessStored ==
    /\ tpc = "listed" /\ tagGot.err = Nil /\ Cardinality(tagStore) = 2
    /\ Cardinality(DOMAIN tagOut) = 2

\* the elements of a sequence
Range(q) == {q[i] : i \in 1..Len(q)}

\* C14: Update replaces, never merges: the rule list its PutPolicy carries is
\* the expansion of the configured rule list whatever the remote side holds,
\* no GetPolicy precedes the write, and after a successful write the remote
\* side holds that list only, so no earlier rule the configuration lacks.
C14_UpdateFullReplace ==
    (op = "update" /\ pc \in {"put", "wait", "poll", "last", "done"}
        /\ (pc = "done" => puts /= <<>>))
    => /\ rules = ExpandLifecycleRules(cfg.rule).rules
       /\ pc = "put" => nGet = 0 /\ polls = <<>>
       /\ (pc = "put" /\ puts = <<>>) => remote = remoteBefore
       /\ (puts /= <<>> /\ Last(puts) = Nil)
          => /\ remote = Present(ExpandLifecycleRules(cfg.rule).rules)
             /\ \A r \in Range(remoteBefore.rules) :
                    r \notin Range(ExpandLifecycleRules(cfg.rule).rules)
                    => r \notin Range(remote.rules)

\* Update wrote a configuration that drops the rule the remote side held
C14_Witness ==
    /\ op = "update" /\ pc = "wait" /\ Last(puts) = Nil /\ nGet = 0
    /\ remoteBefore.present /\ remoteBefore.rules /= <<>>
    /\ \E r \in Range(remoteBefore.rules) : r \notin Range(remote.rules)
    /\ remote = Present(rules)

\* C15: in Create the identity is set right after the successful PutPolicy,
\* before the wait and the trailing Read: it is set exactly when the write has
\* succeeded, so a Create that fails after the write returns with the identity
\* set and one that fails before or at the write returns with it empty.
C15_IdSetRightAfterWrite ==
    op = "create" =>
        /\ id /= EmptyId <=> (puts /= <<>> /\ Last(puts) = Nil)
        /\ id /= EmptyId => id = CreateResourceID(cfg.bucket, cfg.owner)
        /\ pc = "wait" => id /= EmptyId /\ nGet = 0
        /\ nGet > 0 => id /= EmptyId
        /\ (pc = "done" /\ outcome = "error" /\ (puts = <<>> \/ Last(puts) /= Nil))
              => id = EmptyId /\ nGet = 0
        /\ (pc = "done" /\ outcome = "error" /\ puts /= <<>> /\ Last(puts) = Nil)
              => id /= EmptyId

\* Create wrote, then the wait failed: the error comes with the identity set
C15_Witness ==
    /\ op = "create" /\ pc = "done" /\ outcome = "error" /\ retErr = WaitError
    /\ Last(puts) = Nil /\ id = CreateResourceID(cfg.bucket, cfg.owner)
    /\ id /= EmptyId

\* Create's write failed: the error comes with no identity
C15_WitnessWriteFailed ==
    /\ op = "create" /\ pc = "done" /\ outcome = "error"
    /\ puts /= <<>> /\ Last(puts) = AccessDenied /\ id = EmptyId

\* the most recent successful result among the first n polls that differed
\* from the baseline before it; the nil output when there is none
RECURSIVE Baseline(_)
Baseline(n) ==
    IF n = 0 THEN NilOutput
    ELSE IF polls[n].err = Nil /\ Output(polls[n].rules) /= Baseline(n - 1)
         THEN Output(polls[n].rules)
         ELSE Baseline(n - 1)

\* C16: the baseline Read compares with is the most recent successful
\* GetPolicy result that differed from the baseline before it: only such a
\* read replaces it, a retried not-found leaves it as it was, and the loop
\* ends stable exactly on a successful read equal to it, not-founds between
\* the two equal reads notwithstanding.
C16_BaselineIsLastDifferingRead ==
    /\ lastOutput = Baseline(Len(polls))
    /\ loopEnd = "stable"
          <=> /\ polls /= <<>> /\ Last(polls).err = Nil
              /\ ~Baseline(Len(polls) - 1).nil
              /\ Output(Last(polls).rules) = Baseline(Len(polls) - 1)

\* two equal successful reads with a retried not-found between them
C16_Witness ==
    /\ isNew /\ Len(polls) = 3 /\ loopEnd = "stable" /\ outcome = "ok"
    /\ polls[1].err = Nil /\ polls[3].err = Nil /\ polls[1].rules = polls[3].rules
    /\ polls[2].err \in NotFoundCodes
    /\ lastOutput = Output(polls[1].rules)

\* how a Read that entered its loop ends: the loop stops for one of three
\* reasons, at most one GetPolicy follows it, and Read returns one outcome
ReadShape ==
    /\ nLast <= 1
    /\ nLast = 1 => loopEnd = "timeout"
    /\ pc = "last" => loopEnd = "timeout" /\ nLast = 0
    /\ loopEnd = "stable"
          => /\ Len(polls) >= 2 /\ Last(polls).err = Nil
             /\ \E n \in 1..(Len(polls) - 1) :
                    polls[n].err = Nil /\ polls[n].rules = Last(polls).rules
    /\ loopEnd = "fatal"
          => Last(polls).err /= Nil /\ ~RetryNotFound(isNew, Last(polls).err)
    /\ nGet <= MaxPolls + 2
    /\ (pc = "done" /\ loopEnd /= "none")
          => /\ loopEnd \in {"stable", "fatal", "timeout"}
             /\ outcome \in {"ok", "absent", "error"}
             /\ outcome = "ok"
                   => /\ retErr = Nil /\ id = ReadStartId /\ id /= EmptyId
                      /\ attrs.bucket = target.bucket /\ attrs.owner = target.owner
                      /\ attrs.rule = FlattenLifecycleRules(output.Rules)
             /\ outcome = "absent"
                   => retErr = Nil /\ id = EmptyId /\ attrs = attrsBefore
             /\ outcome = "error"
                   => retErr /= Nil /\ id = ReadStartId /\ attrs = attrsBefore

\* C17: with a remote side that answers every call, a Read that entered its
\* loop returns: the loop ends on a read equal to an earlier one, on a
\* non-retryable error or on the stabilization timeout, at most one further
\* GetPolicy follows, and Read returns exactly one of success with the
\* attributes set, the identity cleared, or an error.
C17_ReadTerminates ==
    /\ []ReadShape
    /\ (pc \in {"poll", "last"}) ~> (pc = "done" /\ loopEnd /= "none")

\* a Read whose loop timed out before any answer and whose last read succeeded
C17_Witness ==
    /\ op = "read" /\ pc = "done" /\ loopEnd = "timeout" /\ nLast = 1
    /\ outcome = "ok" /\ polls = <<>> /\ nGet = 1

\* C18: S3ObjectUpdateTags lists nothing and issues at most one call: with
\* newTags not empty it puts newTags less the aws:-prefixed keys (the empty
\* TagSet when all are), with newTags empty but oldTags not it deletes all
\* tags, with both empty it calls nothing; a successful call leaves on the
\* object the sent TagSet and nothing of what was stored.
C18_ObjectTagsOneCall ==
    tpc = "objdone" =>
        /\ Len(tagCalls) <= 1
        /\ \A i \in 1..Len(tagCalls) :
              tagCalls[i].call \in {"PutObjectTagging", "DeleteObjectTagging"}
        /\ DOMAIN tagNew /= {}
              => /\ Len(tagCalls) = 1 /\ tagCalls[1].call = "PutObjectTagging"
                 /\ {t.Key : t \in tagCalls[1].TagSet}
                        = {k \in DOMAIN tagNew : ~AwsPrefixed(k)}
                 /\ \A t \in tagCalls[1].TagSet : t.Value = tagNew[t.Key]
                 /\ tagRet = Nil => objStore = tagCalls[1].TagSet
        /\ (DOMAIN tagNew = {} /\ DOMAIN tagOld /= {})
              => /\ tagCalls = <<[call |-> "DeleteObjectTagging", TagSet |-> {}]>>
                 /\ tagRet = Nil => objStore = {}
        /\ (DOMAIN tagNew = {} /\ DOMAIN tagOld = {})
              => tagCalls = <<>> /\ tagRet = Nil /\ objStore = tagBefore
        /\ tagRet /= Nil => objStore = tagBefore

\* newTags holds only an aws: key: the empty TagSet is put and replaces the
\* two tags the object held
C18_Witness ==
    /\ tpc = "objdone" /\ DOMAIN tagNew = AwsKeys /\ tagRet = Nil
    /\ Cardinality(tagBefore) = 2
    /\ tagCalls = <<[call |-> "PutObjectTagging", TagSet |-> {}]>>
    /\ objStore = {}

\* ---- specifications -------------------------------------------------------
Next ==
    \/ Create
    \/ CreatePut
    \/ PutTimeout
    \/ Wait
    \/ Update
    \/ UpdatePut
    \/ Delete
    \/ Read
    \/ Poll
    \/ PollTimeout
    \/ LastRead
    \/ Return

Spec == Init /\ [][Next]_vars

NextTags ==
    \/ ListTags
    \/ S3BucketUpdateTags
    \/ TagsReturn

\* the remote side answers every call and the retry's timer fires
SpecFair ==
    /\ Init /\ [][Next]_vars
    /\ WF_vars(Poll) /\ WF_vars(PollTimeout) /\ WF_vars(LastRead)

SpecTags == InitTags /\ [][NextTags]_vars

NextObjectTags ==
    \/ S3ObjectUpdateTags
    \/ TagsReturn

SpecObjectTags == InitObjectTags /\ [][NextObjectTags]_vars
====
